---------------------------- MODULE Spec2Model ----------------------------
(***************************************************************************)
(* The deployment pipeline of src/src/App.tsx: the React state of App      *)
(* (projectName, code, isDeploying, deployedUrl, logs, steps) and the      *)
(* asynchronous handler handleDeploy that walks the five steps.            *)
(*                                                                         *)
(* State is the React state after the queued updates have been applied in  *)
(* call order.  Every state-setter call of handleDeploy is one step; the   *)
(* position of an invocation is the source line it is about to execute.    *)
(* JavaScript runs each task to completion, so a user event (a click, an   *)
(* edit) or a timer callback starts only when no invocation is in the      *)
(* middle of a synchronous stretch, that is when each one is suspended at  *)
(* an await.                                                               *)
(*                                                                         *)
(* LogEntry.timestamp is a wall-clock read that nothing reads back; it is  *)
(* left out of the entries.                                                *)
(***************************************************************************)
EXTENDS Integers, Sequences, FiniteSets, TLC

VARIABLES
  projectName,  \* useState('my-awesome-app'), a sequence of characters
  code,         \* useState(`import React ...`), a sequence of UTF-16 code units
  isDeploying,  \* useState(false)
  deployedUrl,  \* useState<string | null>(null): Null or <<url>>
  logs,         \* useState<LogEntry[]>([])
  steps,        \* useState<Step[]>([...])
  runs,         \* the invocations of handleDeploy that have not returned:
                \* position, closure (projectName), local (url), history
  ignored       \* history: a call of handleDeploy has returned at line 159
                \* since the last call that went on

vars == <<projectName, code, isDeploying, deployedUrl, logs, steps, runs,
          ignored>>

\* Longest text typed into the project name field.
MaxNameLen == 2

\* Longest text typed into the code field.
MaxCodeLen == 1

\* Characters typed into the project name field: an uppercase letter and a
\* whitespace character.
Chars == {"B", " "}

\* Characters typed into the code field.
CodeChars == {"x"}

\* The texts of at most n characters of cs.
RawInputs(n, cs) == UNION {[1..k -> cs] : k \in 0..n}

Null == <<>>

-----------------------------------------------------------------------------
(* Strings *)

RECURSIVE Str(_)
Str(s) == IF s = <<>> THEN "" ELSE Head(s) \o Str(Tail(s))

\* String.prototype.toLowerCase on one character: the uppercase letters that
\* occur in the typed texts and in "My App"; every other character is kept.
ToLower(c) ==
  CASE c = "A" -> "a"
    [] c = "B" -> "b"
    [] c = "M" -> "m"
    [] OTHER -> c

\* The class \s on the characters of Chars.
IsSpace(c) == c = " "

toLowerCase(s) == [k \in DOMAIN s |-> ToLower(s[k])]

RECURSIVE SkipSpaces(_)
SkipSpaces(s) ==
  IF s # <<>> /\ IsSpace(Head(s)) THEN SkipSpaces(Tail(s)) ELSE s

\* replace(/\s/g, '-'), the pattern without its +: every whitespace character
\* becomes one '-'.
ReplaceSpaces_EachSpace(s) ==
  [k \in DOMAIN s |-> IF IsSpace(s[k]) THEN "-" ELSE s[k]]

\* replace(/\s+/g, '-'): every maximal run of whitespace becomes one '-'.
RECURSIVE ReplaceSpaces(_)
ReplaceSpaces(s) ==
  IF s = <<>> THEN <<>>
  ELSE IF IsSpace(Head(s)) THEN <<"-">> \o ReplaceSpaces(SkipSpaces(Tail(s)))
  ELSE <<Head(s)>> \o ReplaceSpaces(Tail(s))

\* e.target.value.toLowerCase().replace(/\s+/g, '-')
Normalize(v) == ReplaceSpaces(toLowerCase(v))

-----------------------------------------------------------------------------
(* Initial state *)

InitialProjectName ==
  <<"m", "y", "-", "a", "w", "e", "s", "o", "m", "e", "-", "a", "p", "p">>

\* The template shown in the code field (lines 127-135), one element for
\* each UTF-16 code unit: "\n" is the line break, "\\uD83D" and "\\uDE80" are
\* the two code units of the rocket character of line 132.
InitialCode ==
  << "i", "m", "p", "o", "r", "t", " ", "R", "e", "a", "c", "t",
     " ", "f", "r", "o", "m", " ", "'", "r", "e", "a", "c", "t",
     "'", ";", "\n",
     "\n",
     "e", "x", "p", "o", "r", "t", " ", "d", "e", "f", "a", "u",
     "l", "t", " ", "f", "u", "n", "c", "t", "i", "o", "n", " ",
     "A", "p", "p", "(", ")", " ", "{", "\n",
     " ", " ", "r", "e", "t", "u", "r", "n", " ", "(", "\n",
     " ", " ", " ", " ", "<", "d", "i", "v", " ", "c", "l", "a",
     "s", "s", "N", "a", "m", "e", "=", "\"", "m", "i", "n", "-",
     "h", "-", "s", "c", "r", "e", "e", "n", " ", "b", "g", "-",
     "b", "l", "a", "c", "k", " ", "t", "e", "x", "t", "-", "w",
     "h", "i", "t", "e", " ", "f", "l", "e", "x", " ", "i", "t",
     "e", "m", "s", "-", "c", "e", "n", "t", "e", "r", " ", "j",
     "u", "s", "t", "i", "f", "y", "-", "c", "e", "n", "t", "e",
     "r", "\"", ">", "\n",
     " ", " ", " ", " ", " ", " ", "<", "h", "1", " ", "c", "l",
     "a", "s", "s", "N", "a", "m", "e", "=", "\"", "t", "e", "x",
     "t", "-", "4", "x", "l", " ", "f", "o", "n", "t", "-", "b",
     "o", "l", "d", "\"", ">", "H", "e", "l", "l", "o", " ", "W",
     "o", "r", "l", "d", "!", " ", "\\uD83D", "\\uDE80", "<", "/", "h", "1",
     ">", "\n",
     " ", " ", " ", " ", "<", "/", "d", "i", "v", ">", "\n",
     " ", " ", ")", ";", "\n",
     "}" >>

InitialSteps ==
  << [id |-> "validate", label |-> "Validate & Bundle Code",   status |-> "idle"],
     [id |-> "github",   label |-> "Create GitHub Repository", status |-> "idle"],
     [id |-> "push",     label |-> "Push to Main Branch",      status |-> "idle"],
     [id |-> "vercel",   label |-> "Deploy to Vercel",         status |-> "idle"],
     [id |-> "live",     label |-> "Verify Live URL",          status |-> "idle"] >>

Init ==
  /\ projectName = InitialProjectName
  /\ code = InitialCode
  /\ isDeploying = FALSE
  /\ deployedUrl = Null
  /\ logs = <<>>
  /\ steps = InitialSteps
  /\ runs = <<>>
  /\ ignored = FALSE

-----------------------------------------------------------------------------
(* The body of handleDeploy, by source line *)

\* The calls with line 176 naming the step after the one it should.
UpdateStepCalls_WrongId ==
     167 :> [id |-> "validate", status |-> "loading"]
  @@ 173 :> [id |-> "validate", status |-> "success"]
  @@ 176 :> [id |-> "push",     status |-> "loading"]
  @@ 182 :> [id |-> "github",   status |-> "success"]
  @@ 185 :> [id |-> "push",     status |-> "loading"]
  @@ 192 :> [id |-> "push",     status |-> "success"]
  @@ 195 :> [id |-> "vercel",   status |-> "loading"]
  @@ 202 :> [id |-> "vercel",   status |-> "success"]
  @@ 205 :> [id |-> "live",     status |-> "loading"]
  @@ 210 :> [id |-> "live",     status |-> "success"]

\* updateStep(id, status) calls.
UpdateStepCalls ==
     167 :> [id |-> "validate", status |-> "loading"]
  @@ 173 :> [id |-> "validate", status |-> "success"]
  @@ 176 :> [id |-> "github",   status |-> "loading"]
  @@ 182 :> [id |-> "github",   status |-> "success"]
  @@ 185 :> [id |-> "push",     status |-> "loading"]
  @@ 192 :> [id |-> "push",     status |-> "success"]
  @@ 195 :> [id |-> "vercel",   status |-> "loading"]
  @@ 202 :> [id |-> "vercel",   status |-> "success"]
  @@ 205 :> [id |-> "live",     status |-> "loading"]
  @@ 210 :> [id |-> "live",     status |-> "success"]

\* addLog(message, type) calls of the invocation r.
AddLogCalls(r) ==
     168 :> [message |-> "Starting deployment process...", type |-> "info"]
  @@ 170 :> [message |-> "Analyzing dependency tree...", type |-> "info"]
  @@ 172 :> [message |-> "Code validation successful. Bundle size: 42KB", type |-> "success"]
  @@ 177 :> [message |-> "Connecting to GitHub API...", type |-> "info"]
  @@ 179 :> [message |-> "Creating repository '" \o Str(r.projectName) \o "'...", type |-> "info"]
  @@ 181 :> [message |-> "Repository created: github.com/user/" \o Str(r.projectName), type |-> "success"]
  @@ 186 :> [message |-> "Initializing git...", type |-> "info"]
  @@ 188 :> [message |-> "Staging files...", type |-> "info"]
  @@ 189 :> [message |-> "Committing: \"Initial commit\"", type |-> "info"]
  @@ 191 :> [message |-> "Pushing to origin/main...", type |-> "success"]
  @@ 196 :> [message |-> "Triggering Vercel deployment hook...", type |-> "info"]
  @@ 198 :> [message |-> "Build started in container i-0a1b2c...", type |-> "info"]
  @@ 199 :> [message |-> "Installing dependencies...", type |-> "info"]
  @@ 201 :> [message |-> "Build completed in 2.4s", type |-> "success"]
  @@ 206 :> [message |-> "Assigning domains...", type |-> "info"]
  @@ 209 :> [message |-> "Deployment active at " \o r.url, type |-> "success"]
  @@ 215 :> [message |-> "An unexpected error occurred during deployment.", type |-> "error"]

\* await new Promise(r => setTimeout(r, ms)): line :> ms.
AwaitCalls ==
     169 :> 800  @@ 171 :> 800  @@ 178 :> 1000 @@ 180 :> 1200 @@ 187 :> 600
  @@ 190 :> 1000 @@ 197 :> 1500 @@ 200 :> 2000 @@ 207 :> 800

UpdateStepLines == DOMAIN UpdateStepCalls
AddLogLines == {168, 170, 172, 177, 179, 181, 186, 188, 189, 191, 196, 198,
                199, 201, 206, 209, 215}
AwaitLines == DOMAIN AwaitCalls

\* The statements with lines 167 and 168 exchanged: the start entry is logged
\* before the first step is set to loading.
Body_LogFirst ==
  << 161, 162, 163,
     168, 167, 169, 170, 171, 172, 173,
     176, 177, 178, 179, 180, 181, 182,
     185, 186, 187, 188, 189, 190, 191, 192,
     195, 196, 197, 198, 199, 200, 201, 202,
     205, 206, 207, 208, 209, 210,
     212,
     217 >>

\* The statements in execution order: the reset, the try block, finally.
Body ==
  << 161, 162, 163,
     167, 168, 169, 170, 171, 172, 173,
     176, 177, 178, 179, 180, 181, 182,
     185, 186, 187, 188, 189, 190, 191, 192,
     195, 196, 197, 198, 199, 200, 201, 202,
     205, 206, 207, 208, 209, 210,
     212,
     217 >>

\* The statement executed after line l when l completes normally.
Succ(l) ==
  IF l = 215 THEN 217
  ELSE LET k == CHOOSE k \in DOMAIN Body : Body[k] = l IN Body[k + 1]

-----------------------------------------------------------------------------
(* State updaters *)

\* An append that drops what was logged before: [{ timestamp, message, type }].
addLog_Replace(prev, message, type) ==
  <<[message |-> message, type |-> type]>>

\* prev => [...prev, { timestamp: now, message, type }]
addLog(prev, message, type) ==
  Append(prev, [message |-> message, type |-> type])

\* A map without the test of the id: prev.map(s => ({ ...s, status })).
updateStep_AllIds(prev, id, status) ==
  [k \in DOMAIN prev |-> [prev[k] EXCEPT !.status = status]]

\* prev => prev.map(s => s.id === id ? { ...s, status } : s)
updateStep(prev, id, status) ==
  [k \in DOMAIN prev |->
     IF prev[k].id = id THEN [prev[k] EXCEPT !.status = status] ELSE prev[k]]

\* A reset that keeps the statuses of the previous run.
resetSteps_Kept(prev) == prev

\* steps.map(s => ({ ...s, status: 'idle' }))
resetSteps(prev) == [k \in DOMAIN prev |-> [prev[k] EXCEPT !.status = "idle"]]

-----------------------------------------------------------------------------
(* Scheduling *)

At(i, lines) == i \in DOMAIN runs /\ runs[i].pc \in lines

\* Some invocation is in the middle of a synchronous stretch.
Busy == \E i \in DOMAIN runs : runs[i].pc \notin AwaitLines

Goto(i, l) == runs' = [runs EXCEPT ![i].pc = l]

Remove(s, i) == SubSeq(s, 1, i - 1) \o SubSeq(s, i + 1, Len(s))

\* Lines 160-168 run in the click handler before its first await.  React
\* applies the updates queued by one event handler as one batch, so the
\* positions inside this stretch are steps of the model but not states the
\* component is ever rendered in.
InStartBatch == \E i \in DOMAIN runs : runs[i].pc \in {161, 162, 163, 167, 168}


-----------------------------------------------------------------------------
(* User events *)

\* An onChange that also empties the log.
EditProjectName_ClearsLogs(v) ==
  /\ ~Busy
  /\ projectName' = Normalize(v)
  /\ logs' = <<>>
  /\ UNCHANGED <<ignored, code, isDeploying, deployedUrl, steps, runs>>

\* onChange of the project name field with e.target.value = v.
EditProjectName(v) ==
  /\ ~Busy
  /\ projectName' = Normalize(v)
  /\ UNCHANGED <<ignored, code, isDeploying, deployedUrl, logs, steps, runs>>

\* onChange of the code field with e.target.value = v.
EditCode(v) ==
  /\ ~Busy
  /\ code' = v
  /\ UNCHANGED <<ignored, projectName, isDeploying, deployedUrl, logs, steps, runs>>

\* handleDeploy without its first line: every call starts a run.
HandleDeploy_NoGuard ==
  /\ ~Busy
  /\ isDeploying' = TRUE
  /\ runs' = Append(runs, [pc |-> 161, projectName |-> projectName, url |-> "",
                           logsAtLoading |-> 0])
  /\ ignored' = FALSE
  /\ UNCHANGED <<projectName, code, deployedUrl, logs, steps>>

\* A start request: a call of handleDeploy.  It returns at once when
\* isDeploying (the Launch button is disabled on the same test); otherwise
\* it sets isDeploying and goes on with the project name of the render
\* whose closure it is.
HandleDeploy ==
  /\ ~Busy
  /\ IF isDeploying
       THEN /\ ignored' = TRUE
            /\ UNCHANGED <<projectName, code, isDeploying, deployedUrl, logs,
                           steps, runs>>
       ELSE /\ isDeploying' = TRUE
            /\ runs' = Append(runs, [pc |-> 161, projectName |-> projectName,
                                     url |-> "", logsAtLoading |-> 0])
            /\ ignored' = FALSE
            /\ UNCHANGED <<projectName, code, deployedUrl, logs, steps>>

-----------------------------------------------------------------------------
(* The statements of an invocation *)

\* Line 161 left out: the result of the previous run is kept.
ClearDeployedUrl_Skipped(i) ==
  /\ At(i, {161})
  /\ Goto(i, Succ(161))
  /\ UNCHANGED <<ignored, projectName, code, isDeploying, deployedUrl, logs,
                 steps>>

\* Line 161: setDeployedUrl(null).
ClearDeployedUrl(i) ==
  /\ At(i, {161})
  /\ deployedUrl' = Null
  /\ Goto(i, Succ(161))
  /\ UNCHANGED <<ignored, projectName, code, isDeploying, logs, steps>>

\* Line 162 left out: the log of the previous run is kept.
ClearLogs_Skipped(i) ==
  /\ At(i, {162})
  /\ Goto(i, Succ(162))
  /\ UNCHANGED <<ignored, projectName, code, isDeploying, deployedUrl, logs,
                 steps>>

\* Line 162: setLogs([]).
ClearLogs(i) ==
  /\ At(i, {162})
  /\ logs' = <<>>
  /\ Goto(i, Succ(162))
  /\ UNCHANGED <<ignored, projectName, code, isDeploying, deployedUrl, steps>>

\* Line 163: setSteps(steps.map(s => ({ ...s, status: 'idle' }))).  The ids
\* and labels of the closure's steps are those of the current steps.
ResetSteps(i) ==
  /\ At(i, {163})
  /\ steps' = resetSteps(steps)
  /\ Goto(i, Succ(163))
  /\ UNCHANGED <<ignored, projectName, code, isDeploying, deployedUrl, logs>>

\* An updateStep(id, status) statement.  logsAtLoading is history: the
\* length of the log when the invocation last set a step to loading.
UpdateStep(i) ==
  /\ At(i, UpdateStepLines)
  /\ LET c == UpdateStepCalls[runs[i].pc]
     IN /\ steps' = updateStep(steps, c.id, c.status)
        /\ runs' = [runs EXCEPT
                      ![i].pc = Succ(runs[i].pc),
                      ![i].logsAtLoading =
                        IF c.status = "loading" THEN Len(logs) ELSE @]
  /\ UNCHANGED <<ignored, projectName, code, isDeploying, deployedUrl, logs>>

\* An addLog(message, type) statement, the one of the catch block included.
AddLog(i) ==
  /\ At(i, AddLogLines)
  /\ LET c == AddLogCalls(runs[i])[runs[i].pc]
     IN logs' = addLog(logs, c.message, c.type)
  /\ Goto(i, Succ(runs[i].pc))
  /\ UNCHANGED <<ignored, projectName, code, isDeploying, deployedUrl, steps>>

\* An awaited timer promise resolves and the invocation resumes.
TimerFires(i) ==
  /\ ~Busy
  /\ At(i, AwaitLines)
  /\ Goto(i, Succ(runs[i].pc))
  /\ UNCHANGED <<ignored, projectName, code, isDeploying, deployedUrl, logs, steps>>

\* An exception that leaves handleDeploy: no catch, no finally.
Throw_Uncaught(i) == runs' = Remove(runs, i)

\* An exception inside the try block (lines 165-213) enters the catch
\* block at line 215.
Throw(i) == Goto(i, 215)

\* An awaited promise rejects (its executor throws, or the work it stands
\* for fails): the await throws.
TimerRejects(i) ==
  /\ ~Busy
  /\ At(i, AwaitLines)
  /\ Throw(i)
  /\ UNCHANGED <<ignored, projectName, code, isDeploying, deployedUrl, logs, steps>>

\* Line 208 reading the project name of the latest render instead of the
\* one the invocation closed over.
ConstUrl_CurrentName(i) ==
  /\ At(i, {208})
  /\ runs' = [runs EXCEPT ![i].url = "https://" \o Str(projectName)
                                       \o ".vercel.app",
                          ![i].pc = Succ(208)]
  /\ UNCHANGED <<ignored, projectName, code, isDeploying, deployedUrl, logs, steps>>

\* Line 208: const url = `https://${projectName}.vercel.app`.
ConstUrl(i) ==
  /\ At(i, {208})
  /\ runs' = [runs EXCEPT ![i].url = "https://" \o Str(runs[i].projectName)
                                       \o ".vercel.app",
                          ![i].pc = Succ(208)]
  /\ UNCHANGED <<ignored, projectName, code, isDeploying, deployedUrl, logs, steps>>

\* Line 212 left out: the url is computed and logged but never stored.
SetDeployedUrl_Skipped(i) ==
  /\ At(i, {212})
  /\ Goto(i, Succ(212))
  /\ UNCHANGED <<ignored, projectName, code, isDeploying, deployedUrl, logs,
                 steps>>

\* Line 212: setDeployedUrl(url).
SetDeployedUrl(i) ==
  /\ At(i, {212})
  /\ deployedUrl' = <<runs[i].url>>
  /\ Goto(i, Succ(212))
  /\ UNCHANGED <<ignored, projectName, code, isDeploying, logs, steps>>

\* Line 217: finally { setIsDeploying(false) }, after which handleDeploy
\* returns.
Finally(i) ==
  /\ At(i, {217})
  /\ isDeploying' = FALSE
  /\ runs' = Remove(runs, i)
  /\ UNCHANGED <<ignored, projectName, code, deployedUrl, logs, steps>>

\* One step of an invocation of handleDeploy.
RunStep ==
  \E i \in DOMAIN runs :
    \/ ClearDeployedUrl(i)
    \/ ClearLogs(i)
    \/ ResetSteps(i)
    \/ UpdateStep(i)
    \/ AddLog(i)
    \/ TimerFires(i)
    \/ TimerRejects(i)
    \/ ConstUrl(i)
    \/ SetDeployedUrl(i)
    \/ Finally(i)

Next ==
  \/ \E v \in RawInputs(MaxNameLen, Chars) : EditProjectName(v)
  \/ \E v \in RawInputs(MaxCodeLen, CodeChars) : EditCode(v)
  \/ HandleDeploy
  \/ \E i \in DOMAIN runs : ClearDeployedUrl(i)
  \/ \E i \in DOMAIN runs : ClearLogs(i)
  \/ \E i \in DOMAIN runs : ResetSteps(i)
  \/ \E i \in DOMAIN runs : UpdateStep(i)
  \/ \E i \in DOMAIN runs : AddLog(i)
  \/ \E i \in DOMAIN runs : TimerFires(i)
  \/ \E i \in DOMAIN runs : TimerRejects(i)
  \/ \E i \in DOMAIN runs : ConstUrl(i)
  \/ \E i \in DOMAIN runs : SetDeployedUrl(i)
  \/ \E i \in DOMAIN runs : Finally(i)

Spec == Init /\ [][Next]_vars

\* The event loop runs every ready continuation and every timer fires.
FairSpec == Spec /\ WF_vars(RunStep)


-----------------------------------------------------------------------------
(* Properties *)

Loading == {k \in DOMAIN steps : steps[k].status = "loading"}

AllIdle == \A k \in DOMAIN steps : steps[k].status = "idle"

AllSuccess == \A k \in DOMAIN steps : steps[k].status = "success"

HasErrorLog == \E n \in DOMAIN logs : logs[n].type = "error"

IsPrefix(s, t) == Len(s) <= Len(t) /\ SubSeq(t, 1, Len(s)) = s

\* A run has ended: every run logs before its first await, and the log is
\* emptied only while isDeploying.
RunEnded == ~isDeploying /\ logs # <<>>

\* C1: a call of handleDeploy made while isDeploying changes none of steps,
\* logs, deployedUrl, isDeploying and starts no invocation; at most one
\* invocation of handleDeploy is in flight in every reachable state.
C1_StartWhileRunningIsNoOp ==
  /\ [][HandleDeploy /\ isDeploying
          => UNCHANGED <<steps, logs, deployedUrl, isDeploying, runs>>]_vars
  /\ [](Len(runs) <= 1)

\* A start request was ignored and the run it met has since completed all
\* five steps and is about to store the url.
C1_Witness ==
  ignored /\ isDeploying /\ AllSuccess /\ \E i \in DOMAIN runs : runs[i].pc = 212

\* C2 (as claimed): once the work of a step has failed, shown by the
\* error-kind log entry of the run, some step has status error, every step
\* after it is idle and deployedUrl is absent.
C2_FailedStepMarkedError ==
  HasErrorLog =>
    \E k \in DOMAIN steps :
      /\ steps[k].status = "error"
      /\ \A j \in DOMAIN steps : j > k => steps[j].status = "idle"
      /\ deployedUrl = Null

\* C3: at most one step has status loading in every reachable state.
C3_AtMostOneLoading == Cardinality(Loading) <= 1

\* The third step is loading and the two before it are success.
C3_Witness ==
  /\ Loading = {3}
  /\ steps[1].status = "success" /\ steps[2].status = "success"

FullSuccess == deployedUrl # Null /\ AllSuccess

PartialFailure ==
  \E n \in 0..(Len(steps) - 1) :
    /\ \A k \in 1..n : steps[k].status = "success"
    /\ steps[n + 1].status = "error"
    /\ \A k \in (n + 2)..Len(steps) : steps[k].status = "idle"
    /\ deployedUrl = Null
    /\ HasErrorLog

\* C4 (as claimed): when a run has ended the state is a full success or a
\* partial failure (steps 1..N success, step N+1 error, the rest idle, no
\* result, an error-kind log entry).
C4_TerminalShape == RunEnded => FullSuccess \/ PartialFailure

\* C5: when a run has ended with all steps success, deployedUrl holds the url
\* that the last step logged; isDeploying goes from true to false only in the
\* step in which the single invocation returns, and no step status changes
\* in or after that step until the next start.
C5_SuccessSetsResult ==
  /\ [](~isDeploying /\ AllSuccess =>
          /\ deployedUrl # Null
          /\ logs # <<>>
          /\ logs[Len(logs)].message = "Deployment active at " \o deployedUrl[1])
  /\ [][isDeploying /\ ~isDeploying' => Len(runs) = 1 /\ runs' = <<>>]_vars
  /\ [][steps' # steps => isDeploying /\ isDeploying']_vars

\* A run has ended with all five steps success and a result.
C5_Witness == ~isDeploying /\ AllSuccess /\ deployedUrl # Null /\ runs = <<>>

\* C6: isDeploying is true exactly while an invocation of handleDeploy is
\* in flight, and every run that has started reaches isDeploying = false,
\* whether its timers fire or one of its awaits throws.
C6_RunTerminates ==
  /\ [](isDeploying <=> runs # <<>>)
  /\ isDeploying ~> ~isDeploying

\* A run that met a rejected await has ended: the catch block has logged and
\* isDeploying is false again.
C6_Witness == ~isDeploying /\ HasErrorLog /\ runs = <<>>

StatusMoves == {<<"idle", "loading">>, <<"loading", "success">>,
                <<"loading", "error">>}

\* C7: the status of a step changes only from idle to loading, from loading
\* to success or from loading to error, except that the reset of an accepted
\* start request (line 163) makes it idle; so within a run no step skips
\* loading, leaves success or error, or is loading twice.
C7_StatusTransitions ==
  [][\A k \in DOMAIN steps :
       steps'[k].status # steps[k].status =>
         \/ <<steps[k].status, steps'[k].status>> \in StatusMoves
         \/ /\ steps'[k].status = "idle"
            /\ \E i \in DOMAIN runs : runs[i].pc = 163]_vars

\* The run is still in flight and every step has gone from idle through
\* loading to success.
C7_Witness ==
  isDeploying /\ AllSuccess /\ \E i \in DOMAIN runs : runs[i].pc = 217

\* C8: a step is not idle only if every step before it in the registry has
\* status success.
C8_RegistryOrder ==
  \A k \in DOMAIN steps :
    steps[k].status # "idle" =>
      \A j \in 1..(k - 1) : steps[j].status = "success"

\* The fourth step is loading, the three before it success, the last idle.
C8_Witness ==
  /\ steps[4].status = "loading"
  /\ steps[5].status = "idle"
  /\ \A j \in 1..3 : steps[j].status = "success"

\* C9: every step leaves the log a prefix of the new log, except the
\* statement of line 162 of an accepted start request, which empties it.
C9_LogAppendOnly ==
  [][\/ IsPrefix(logs, logs')
     \/ /\ logs' = <<>>
        /\ \E i \in DOMAIN runs : runs[i].pc = 162 /\ runs'[i].pc = 163]_vars

\* The sixteen entries of a run in which every step succeeded are in the log.
C9_Witness == Len(logs) = 16 /\ ~HasErrorLog

\* C10: when an accepted start request reaches its first statement of step
\* work (line 167), all steps are idle, the log is empty, deployedUrl is
\* absent and isDeploying is true, whatever the previous run left behind.
C10_StartResets ==
  \A i \in DOMAIN runs :
    runs[i].pc = 167 =>
      AllIdle /\ logs = <<>> /\ deployedUrl = Null /\ isDeploying

\* A second run is in the middle of its reset: the result and the log of the
\* first run are gone, its five success statuses are about to be reset.
C10_Witness ==
  /\ \E i \in DOMAIN runs : runs[i].pc = 163
  /\ AllSuccess /\ logs = <<>> /\ deployedUrl = Null /\ isDeploying

ErrorEntry ==
  [message |-> "An unexpected error occurred during deployment.",
   type |-> "error"]

\* C11: an await that throws keeps the invocation in flight and takes it
\* to the catch block; the catch block appends the error-kind entry and goes
\* on to finally; an invocation leaves only through line 217, which sets
\* isDeploying false; and with an error-kind entry in the log deployedUrl is
\* absent.
C11_FaultHandled ==
  /\ [](HasErrorLog => deployedUrl = Null)
  /\ [][\A i \in DOMAIN runs :
          runs[i].pc \in AwaitLines /\ runs' # runs =>
            /\ Len(runs') = Len(runs)
            /\ runs'[i].pc \in {Succ(runs[i].pc), 215}]_vars
  /\ [][\A i \in DOMAIN runs :
          runs[i].pc = 215 /\ runs' # runs =>
            /\ Len(runs') = Len(runs)
            /\ runs'[i].pc = 217
            /\ logs' = Append(logs, ErrorEntry)]_vars
  /\ [][Len(runs') < Len(runs) =>
          /\ ~isDeploying'
          /\ \E i \in DOMAIN runs : runs[i].pc = 217]_vars

\* The await of the github step threw: the catch block has logged the error
\* entry and the invocation is at finally, with no result.
C11_Witness ==
  /\ \E i \in DOMAIN runs : runs[i].pc = 217
  /\ logs # <<>> /\ logs[Len(logs)] = ErrorEntry
  /\ Loading = {2}
  /\ deployedUrl = Null

\* C12: deployedUrl is present only if every step has status success.
C12_ResultOnlyOnSuccess == deployedUrl # Null => AllSuccess

\* A second run has been accepted after a successful one and is about to
\* clear the result, which is still present beside five success statuses.
C12_Witness ==
  /\ \E i \in DOMAIN runs : runs[i].pc = 161
  /\ deployedUrl # Null

Settled == {k \in DOMAIN steps : steps[k].status \in {"success", "error"}}

Idle == {k \in DOMAIN steps : steps[k].status = "idle"}

\* C13 (as claimed): when no run is in progress the steps with status
\* success or error and the steps with status idle are all the steps: none is
\* left loading.
C13_NoStepLeftLoading ==
  ~isDeploying => Cardinality(Settled) + Cardinality(Idle) = Len(steps)

\* C14: when a step goes from loading to success or error, the log is
\* longer than it was when the step was set to loading; and in every state
\* the component can be rendered in, the log is not empty when some step has
\* status success or error.
C14_StepLogsBeforeOutcome ==
  /\ [][\A k \in DOMAIN steps :
          steps[k].status = "loading"
            /\ steps'[k].status \in {"success", "error"} =>
          \E i \in DOMAIN runs : Len(logs) > runs[i].logsAtLoading]_vars
  /\ [](~InStartBatch /\ Settled # {} => logs # <<>>)

\* The last step was set to loading with fourteen entries in the log and
\* to success with sixteen.
C14_Witness ==
  /\ AllSuccess
  /\ Len(logs) = 16
  /\ \E i \in DOMAIN runs : runs[i].pc = 212 /\ runs[i].logsAtLoading = 14

\* C15: while isDeploying, an edit of the project name, an edit of the
\* code and a call of handleDeploy leave steps, logs, isDeploying and
\* deployedUrl unchanged; so does every step that moves no invocation.
C15_OnlyTheRunWrites ==
  /\ [][/\ isDeploying
        /\ \/ \E v \in RawInputs(MaxNameLen, Chars) : EditProjectName(v)
           \/ \E v \in RawInputs(MaxCodeLen, CodeChars) : EditCode(v)
           \/ HandleDeploy
        => UNCHANGED <<steps, logs, isDeploying, deployedUrl>>]_vars
  /\ [][isDeploying /\ runs' = runs
        => UNCHANGED <<steps, logs, isDeploying, deployedUrl>>]_vars

\* A run is suspended in a later step after the name has been edited since
\* its start, the code has been edited and a start request was ignored.
C15_Witness ==
  /\ isDeploying /\ ignored
  /\ code # InitialCode
  /\ \E i \in DOMAIN runs :
       /\ runs[i].pc = 200
       /\ projectName # runs[i].projectName
  /\ Len(logs) = 13

StartEntry ==
  [message |-> "Starting deployment process...", type |-> "info"]

\* C16 (as claimed): whenever a step is set to loading, the info entry
\* marking the start of the run is already the first entry of the log.
C16_StartLogBeforeLoading ==
  [][(\E k \in DOMAIN steps :
        steps[k].status # "loading" /\ steps'[k].status = "loading")
     => logs # <<>> /\ logs[1] = StartEntry]_vars

\* C16 (amended): the info entry marking the start of the run is the first
\* entry of the log; it is appended when the first step has just been set
\* to loading and every other step is idle, and it is in the log at every
\* await of the run.
C16_StartLogFirst ==
  /\ [](logs # <<>> => logs[1] = StartEntry)
  /\ [][logs = <<>> /\ logs' # <<>> =>
          /\ Loading = {1}
          /\ Idle = DOMAIN steps \ {1}
          /\ steps' = steps]_vars
  /\ [](\A i \in DOMAIN runs : runs[i].pc \in AwaitLines => logs # <<>>)

\* The run is at its first await: the first step is loading and the log
\* holds the start entry alone.
C16_Witness ==
  /\ \E i \in DOMAIN runs : runs[i].pc = 169
  /\ logs = <<StartEntry>>
  /\ Loading = {1}

UpperCase == {"A", "B", "M"}

\* No uppercase letter and no whitespace.
IsSlug(s) == \A k \in DOMAIN s : s[k] \notin UpperCase /\ ~IsSpace(s[k])

\* The positions of v that do not continue a run of whitespace.
Kept(v) == {k \in DOMAIN v : ~(IsSpace(v[k]) /\ k > 1 /\ IsSpace(v[k - 1]))}

\* The slug of v, position by position: one '-' for each run of whitespace,
\* the lowercase of every other character.
ExpectedSlug(v) ==
  LET pos(j) == CHOOSE k \in Kept(v) :
                  Cardinality({m \in Kept(v) : m < k}) = j - 1
  IN [j \in 1..Cardinality(Kept(v)) |->
        IF IsSpace(v[pos(j)]) THEN "-"
        ELSE IF v[pos(j)] \in UpperCase THEN ToLower(v[pos(j)])
        ELSE v[pos(j)]]

UrlOf(name) == "https://" \o Str(name) \o ".vercel.app"

\* C17: the project name of every invocation has no uppercase letter and no
\* whitespace; every edit stores the typed text in lowercase with one '-' for
\* each run of whitespace; an invocation that reaches finally with all steps
\* success has stored "https://" + its name + ".vercel.app"; and "My App"
\* gives "https://my-app.vercel.app".
C17_SlugAndUrl ==
  /\ [](\A i \in DOMAIN runs : IsSlug(runs[i].projectName))
  /\ [][\A v \in RawInputs(MaxNameLen, Chars) :
          EditProjectName(v) => projectName' = ExpectedSlug(v)]_vars
  /\ [](\A i \in DOMAIN runs :
          runs[i].pc = 217 /\ AllSuccess =>
            deployedUrl = <<UrlOf(runs[i].projectName)>>)
  /\ [](UrlOf(Normalize(<<"M", "y", " ", "A", "p", "p">>))
          = "https://my-app.vercel.app")

\* "B " was typed, the run started with the name "b-" and has stored its url.
C17_Witness ==
  /\ AllSuccess
  /\ \E i \in DOMAIN runs :
       runs[i].pc = 217 /\ runs[i].projectName = <<"b", "-">>
  /\ deployedUrl = <<"https://b-.vercel.app">>

\* The project names the field can hold.
Names ==
  {InitialProjectName} \cup {Normalize(v) : v \in RawInputs(MaxNameLen, Chars)}

\* The fifth and sixth entries of the log, when the github step logged them,
\* and the result, when present, carry the name n.
CarryName(n) ==
  /\ Len(logs) >= 5 /\ logs[5] # ErrorEntry =>
       logs[5].message = "Creating repository '" \o Str(n) \o "'..."
  /\ Len(logs) >= 6 /\ logs[6] # ErrorEntry =>
       logs[6].message = "Repository created: github.com/user/" \o Str(n)
  /\ deployedUrl # Null => deployedUrl = <<UrlOf(n)>>

\* C18: once an invocation has emptied the log, the repository entries of the
\* github step and the result carry the project name it started with,
\* whatever the field holds by then; after it has returned they still carry
\* one and the same name.
C18_StartTimeName ==
  /\ \A i \in DOMAIN runs :
       runs[i].pc \notin {161, 162} => CarryName(runs[i].projectName)
  /\ runs = <<>> => \E n \in Names : CarryName(n)

\* The name was edited to "b" while the run was suspended; the run started
\* with the initial name, has logged the repository and stored the url with
\* it.
C18_Witness ==
  /\ projectName = <<"b">>
  /\ AllSuccess
  /\ \E i \in DOMAIN runs :
       /\ runs[i].pc = 217
       /\ runs[i].projectName = InitialProjectName
  /\ logs[6].message = "Repository created: github.com/user/my-awesome-app"
  /\ deployedUrl = <<"https://my-awesome-app.vercel.app">>

=============================================================================
